---- MODULE Spec2Model ----
(***************************************************************************)
(* telldus-core-mqtt, src/main.py: the bridge between the telldus-core     *)
(* event bus and an MQTT broker.                                           *)
(*                                                                         *)
(* Python str values are sequences of one-character strings, so that       *)
(* str.split, str.format and int() are computed as the interpreter         *)
(* computes them.  The observation variables (out, teardown) record what   *)
(* the last handler invocation did to its collaborators: the publishes it  *)
(* handed to paho, the controller calls it made, the logging.error calls   *)
(* and the exception it left with.                                         *)
(***************************************************************************)
EXTENDS Integers, Sequences, FiniteSets, TLC

VARIABLES
    pc,          \* position of the main thread in the module body (l.216-264)
    connected,   \* per MQTT client: connect() called and disconnect() not yet
    looping,     \* per MQTT client: its network thread (loop_start) is alive
    subs,        \* per MQTT client: the topic filters it is subscribed to
    teardown,    \* the calls of the KeyboardInterrupt handler, in order
    last,        \* the last handler invocation and its arguments
    out,         \* what that invocation did: pubs, calls, errors, raised
    ctx,         \* per execution context: its position inside initial_publish
    lockOwner,   \* per lock: the owning context, or "none"
    lockCount,   \* per lock: its recursion level
    pending,     \* contexts inside the with block that have not yet published
    overtaken    \* a publish reached the client before an earlier entrant's

vars == <<pc, connected, looping, subs, teardown, last, out,
          ctx, lockOwner, lockCount, pending, overtaken>>

mainVars == <<pc, connected, looping, subs, teardown, last, out>>
pubVars == <<ctx, lockOwner, lockCount, pending, overtaken>>

-----------------------------------------------------------------------------
(* Bounds *)

MaxPayloadLen == 2
MaxSegs == 5
MaxTopics == 2

-----------------------------------------------------------------------------
(* Python str primitives *)

Digits == <<"0", "1", "2", "3", "4", "5", "6", "7", "8", "9">>

DigitVal(c) == (CHOOSE i \in 1..10 : Digits[i] = c) - 1

IsDigit(c) == \E i \in 1..10 : Digits[i] = c

RECURSIVE NatToStr(_)
NatToStr(n) ==
    IF n < 10 THEN <<Digits[n + 1]>>
    ELSE NatToStr(n \div 10) \o <<Digits[(n % 10) + 1]>>

\* '{}'.format(n) for an int n
IntToStr(n) == IF n < 0 THEN <<"-">> \o NatToStr(-n) ELSE NatToStr(n)

RECURSIVE DigitsToNat(_, _)
DigitsToNat(s, acc) ==
    IF s = <<>> THEN acc
    ELSE DigitsToNat(Tail(s), acc * 10 + DigitVal(Head(s)))

\* int(s): an optional sign followed by at least one decimal digit; anything
\* else raises ValueError (ok = FALSE).
ParseInt(s) ==
    LET signed == s # <<>> /\ Head(s) \in {"-", "+"}
        body == IF signed THEN Tail(s) ELSE s
    IN  IF body # <<>> /\ \A i \in 1..Len(body) : IsDigit(body[i])
        THEN [ok |-> TRUE,
              val |-> IF signed /\ Head(s) = "-"
                      THEN -DigitsToNat(body, 0) ELSE DigitsToNat(body, 0)]
        ELSE [ok |-> FALSE, val |-> 0]

\* s.split(sep): the segments between the separators, empty ones included
RECURSIVE SplitFrom(_, _, _)
SplitFrom(s, sep, cur) ==
    IF s = <<>> THEN <<cur>>
    ELSE IF Head(s) = sep THEN <<cur>> \o SplitFrom(Tail(s), sep, <<>>)
    ELSE SplitFrom(Tail(s), sep, Append(cur, Head(s)))

Split(s, sep) == SplitFrom(s, sep, <<>>)

\* '{}/{}/...'.format(*segs)
RECURSIVE Join(_)
Join(segs) ==
    IF Len(segs) = 1 THEN segs[1]
    ELSE segs[1] \o <<"/">> \o Join(Tail(segs))

StartsWith(s, p) == Len(s) >= Len(p) /\ SubSeq(s, 1, Len(p)) = p

-----------------------------------------------------------------------------
(* String literals of main.py *)

S_light == <<"l", "i", "g", "h", "t">>
S_brightness == <<"b", "r", "i", "g", "h", "t", "n", "e", "s", "s">>
S_switch == <<"s", "w", "i", "t", "c", "h">>
S_binary_sensor == <<"b", "i", "n", "a", "r", "y", "_", "s", "e", "n", "s", "o", "r">>
S_dim == <<"d", "i", "m">>
S_set == <<"s", "e", "t">>
S_state == <<"s", "t", "a", "t", "e">>
S_config == <<"c", "o", "n", "f", "i", "g">>
S_plus == <<"+">>
S_unknown == <<"U", "N", "K", "N", "O", "W", "N", " ", "M", "E", "T", "H", "O", "D", " ">>

\* config['home_assistant']['state_topic']
StateTopic == <<"h", "a">>

\* telldus-core method codes (const.TELLSTICK_*)
TELLSTICK_TURNON == 1
TELLSTICK_TURNOFF == 2
TELLSTICK_BELL == 4
TELLSTICK_TOGGLE == 8
TELLSTICK_DIM == 16
TELLSTICK_LEARN == 32
TELLSTICK_EXECUTE == 64
TELLSTICK_UP == 128
TELLSTICK_DOWN == 256
TELLSTICK_STOP == 512

\* telldus-core sensor value types (const.TELLSTICK_*)
TELLSTICK_TEMPERATURE == 1
TELLSTICK_HUMIDITY == 2
TELLSTICK_RAINRATE == 4
TELLSTICK_RAINTOTAL == 8
TELLSTICK_WINDDIRECTION == 16
TELLSTICK_WINDAVERAGE == 32
TELLSTICK_WINDGUST == 64

TYPES ==
    (TELLSTICK_TEMPERATURE :> <<"t", "e", "m", "p", "e", "r", "a", "t", "u", "r", "e">>)
    @@ (TELLSTICK_HUMIDITY :> <<"h", "u", "m", "i", "d", "i", "t", "y">>)
    @@ (TELLSTICK_RAINRATE :> <<"r", "a", "i", "n", "r", "a", "t", "e">>)
    @@ (TELLSTICK_RAINTOTAL :> <<"r", "a", "i", "n", "t", "o", "t", "a", "l">>)
    @@ (TELLSTICK_WINDDIRECTION :>
            <<"w", "i", "n", "d", "d", "i", "r", "e", "c", "t", "i", "o", "n">>)
    @@ (TELLSTICK_WINDAVERAGE :>
            <<"w", "i", "n", "d", "a", "v", "e", "r", "a", "g", "e">>)
    @@ (TELLSTICK_WINDGUST :> <<"w", "i", "n", "d", "g", "u", "s", "t">>)

METHODS ==
    (TELLSTICK_TURNON :> <<"t", "u", "r", "n", " ", "o", "n">>)
    @@ (TELLSTICK_TURNOFF :> <<"t", "u", "r", "n", " ", "o", "f", "f">>)
    @@ (TELLSTICK_BELL :> <<"b", "e", "l", "l">>)
    @@ (TELLSTICK_TOGGLE :> <<"t", "o", "g", "g", "l", "e">>)
    @@ (TELLSTICK_DIM :> <<"d", "i", "m">>)
    @@ (TELLSTICK_LEARN :> <<"l", "e", "a", "r", "n">>)
    @@ (TELLSTICK_EXECUTE :> <<"e", "x", "e", "c", "u", "t", "e">>)
    @@ (TELLSTICK_UP :> <<"u", "p">>)
    @@ (TELLSTICK_DOWN :> <<"d", "o", "w", "n">>)
    @@ (TELLSTICK_STOP :> <<"s", "t", "o", "p">>)

\* TABLE.get(code, 'UNKNOWN METHOD {0}'.format(code))
GetOrUnknown(table, code) ==
    IF code \in DOMAIN table THEN table[code] ELSE S_unknown \o IntToStr(code)

-----------------------------------------------------------------------------
(* The four MQTT clients and the outcome of a handler invocation *)

Clients == {"sensor", "device", "command", "subscription"}

\* paho's result[0]: MQTT_ERR_SUCCESS, or MQTT_ERR_NO_CONN
RCs == {0, 4}

NoOutcome == [pubs |-> <<>>, calls |-> <<>>, errors |-> 0, raised |-> "none"]

Raise(exc) == [NoOutcome EXCEPT !.raised = exc]

\* client.publish(topic, msg) without the retain flag
client_publish_unretained(client, topic, msg) ==
    [client |-> client, topic |-> topic, payload |-> msg, retain |-> FALSE]

\* the arguments of client.publish(topic, msg, retain=True)
client_publish(client, topic, msg) ==
    [client |-> client, topic |-> topic, payload |-> msg, retain |-> TRUE]

\* logging.info on result[0] == 0, logging.error otherwise: the errors logged
publish_log(rc) == IF rc = 0 THEN 0 ELSE 1

\* publish_mqtt as one step: one client.publish and its log line
publish_mqtt(client, topic, msg, rc) ==
    [NoOutcome EXCEPT !.pubs = <<client_publish(client, topic, msg)>>,
                      !.errors = publish_log(rc)]

\* one statement after another; an exception ends the sequence
Then(a, b) ==
    IF a.raised # "none" THEN a
    ELSE [pubs |-> a.pubs \o b.pubs, calls |-> a.calls \o b.calls,
          errors |-> a.errors + b.errors, raised |-> b.raised]

-----------------------------------------------------------------------------
(* Topic builders of src.telldus (Sensor, Device, Command) *)

\* create_topic(id, capability): '<prefix>/<id>/<capability>/state'
create_topic(id, capability) == Join(<<StateTopic, id, capability, S_state>>)

\* Device.create_topic_data(capability, value): the value as text
d_create_topic_data(capability, value) == IntToStr(value)

\* Sensor/Command.create_topic_data(type_string, value): the reading as text
s_create_topic_data(type_string, value) == value

\* One element of create_topics(...): a dict with an optional 'config' and an
\* optional 'state' entry, each a topic and its data.
TopicDict(id, capability, keys) ==
    [k \in keys |->
        [topic |-> Join(<<StateTopic, id, capability,
                          IF k = "config" THEN S_config ELSE S_state>>),
         data |-> IF k = "config" THEN <<"{", "}">> ELSE <<"0">>]]

\* The lists create_topics can return for the entities ents (id, capability)
TopicLists(ents) ==
    UNION {{[i \in 1..n |-> TopicDict(ents[i].id, ents[i].cap, ks[i])] :
                ks \in [1..n -> SUBSET {"config", "state"}]} :
           n \in 0..MaxTopics}

\* the number of publishes initial_publish makes for topics
RECURSIVE NPublishes(_)
NPublishes(topics) ==
    IF topics = <<>> THEN 0
    ELSE Cardinality(DOMAIN Head(topics)) + NPublishes(Tail(topics))

-----------------------------------------------------------------------------
(* The handlers, each as the outcome of one invocation *)

\* rcs: the result codes client.publish returns, in call order
RECURSIVE initial_publish(_, _, _)
initial_publish(client_mqtt, topics, rcs) ==
    IF topics = <<>> THEN NoOutcome
    ELSE LET topic == Head(topics)
             hasConfig == "config" \in DOMAIN topic
             hasState == "state" \in DOMAIN topic
             config == IF hasConfig
                       THEN publish_mqtt(client_mqtt, topic["config"].topic,
                                         topic["config"].data, rcs[1])
                       ELSE NoOutcome
             rcs1 == IF hasConfig THEN Tail(rcs) ELSE rcs
             state == IF hasState
                      THEN publish_mqtt(client_mqtt, topic["state"].topic,
                                        topic["state"].data, rcs1[1])
                      ELSE NoOutcome
             rcs2 == IF hasState THEN Tail(rcs1) ELSE rcs1
         IN  Then(Then(config, state),
                  initial_publish(client_mqtt, Tail(topics), rcs2))

ControllerCall(op, args) == [NoOutcome EXCEPT !.calls = <<[op |-> op, args |-> args]>>]

LogError == [NoOutcome EXCEPT !.errors = 1]

\* l.96-102, with the codes of the payload comparison swapped
switch_module_swapped(device_id, payload) ==
    IF payload = TELLSTICK_TURNOFF
    THEN ControllerCall("turn_on", <<device_id>>)
    ELSE IF payload = TELLSTICK_TURNON
    THEN ControllerCall("turn_off", <<device_id>>)
    ELSE NoOutcome

\* l.96-102: elif module == 'switch'
switch_module(device_id, payload) ==
    IF payload = TELLSTICK_TURNON
    THEN ControllerCall("turn_on", <<device_id>>)
    ELSE IF payload = TELLSTICK_TURNOFF
    THEN ControllerCall("turn_off", <<device_id>>)
    ELSE NoOutcome

\* l.78-90: if module == 'light'
light_module(action, device_id, payload) ==
    IF action = S_dim THEN ControllerCall("dim", <<device_id, payload>>)
    ELSE IF action = S_set THEN
        IF payload = 0
        THEN ControllerCall("turn_off", <<device_id>>)
        ELSE ControllerCall("turn_on_once", <<device_id>>)
    ELSE NoOutcome

on_message(topic, msg_payload) ==
    LET segs == Split(topic, "/")
    IN  IF Len(segs) < 4 THEN Raise("IndexError")
        ELSE
        LET device_id == segs[2]
            module == segs[3]
            action == segs[4]
            cmd_status == FALSE
            parsed == ParseInt(msg_payload)
            payload == parsed.val
        IN  IF ~parsed.ok THEN Raise("ValueError")
            ELSE IF module = S_light
            THEN light_module(action, device_id, payload)
            ELSE IF module = S_brightness
            THEN ControllerCall("dim", <<device_id, payload>>)
            ELSE IF module = S_switch
            THEN switch_module(device_id, payload)
            ELSE IF ~cmd_status THEN LogError
            ELSE NoOutcome

IsDimmerId(id_) == id_ = 8 \/ id_ = 9 \/ id_ = 10 \/ id_ = 11 \/ id_ = 12

device_event(id_, method, data, rc) ==
    LET method_string == GetOrUnknown(METHODS, method)   \* log text only
        sid == IntToStr(id_)
        send(capability, value) ==
            publish_mqtt("device", create_topic(sid, capability),
                         d_create_topic_data(capability, value), rc)
    IN  IF IsDimmerId(id_) THEN
            IF method = TELLSTICK_TURNOFF THEN send(S_light, 0)
            ELSE IF method = TELLSTICK_TURNON THEN send(S_light, 255)
            ELSE IF method = TELLSTICK_DIM THEN send(S_brightness, data)
            ELSE Raise("UnboundLocalError")
        ELSE IF method = TELLSTICK_DIM THEN send(S_brightness, data)
        ELSE send(S_switch, method)

\* sensor_event with the state publish ahead of the discovery publishes
sensor_event_state_first(id_, data_type, value, sensor_topics, rcs) ==
    LET type_string == GetOrUnknown(TYPES, data_type)
        topic == create_topic(IntToStr(id_), type_string)
        data == s_create_topic_data(type_string, value)
    IN  Then(publish_mqtt("sensor", topic, data, rcs[1]),
             initial_publish("sensor", sensor_topics, Tail(rcs)))

sensor_event(id_, data_type, value, sensor_topics, rcs) ==
    LET type_string == GetOrUnknown(TYPES, data_type)
        topic == create_topic(IntToStr(id_), type_string)
        data == s_create_topic_data(type_string, value)
        n == NPublishes(sensor_topics)
    IN  Then(initial_publish("sensor", sensor_topics, rcs),
             publish_mqtt("sensor", topic, data, rcs[n + 1]))

raw_event(hasCommand, id_, method, command_topics, rcs) ==
    IF ~hasCommand THEN NoOutcome
    ELSE
    LET topic == create_topic(IntToStr(id_), S_binary_sensor)
        topic_data == s_create_topic_data(S_binary_sensor, method)
        n == NPublishes(command_topics)
    IN  Then(initial_publish("command", command_topics, rcs),
             publish_mqtt("command", topic, topic_data, rcs[n + 1]))

-----------------------------------------------------------------------------
(* Inputs *)

PayloadChars == {"0", "1", "2", "7", "-", "x"}

\* msg.payload.decode()
Payloads == UNION {[1..n -> PayloadChars] : n \in 0..MaxPayloadLen}

\* the values a topic level can take, by position
SegChoices(i) ==
    IF i = 1 THEN {StateTopic}
    ELSE IF i = 2 THEN {<<"5">>, <<"8">>}
    ELSE IF i = 3 THEN {S_light, S_brightness, S_switch, <<"f", "a", "n">>}
    ELSE IF i = 4 THEN {S_set, S_dim, S_config}
    ELSE {<<"x">>}

\* msg.topic of the messages a broker can hold
InboundTopics ==
    UNION {{Join(segs) : segs \in {f \in [1..n -> UNION {SegChoices(i) : i \in 1..n}] :
                                        \A i \in 1..n : f[i] \in SegChoices(i)}} :
           n \in 1..MaxSegs}

\* MQTT topic filter matching with single-level wildcards
Matches(filter, topic) ==
    LET f == Split(filter, "/")
        t == Split(topic, "/")
    IN  /\ Len(f) = Len(t)
        /\ \A i \in 1..Len(f) : f[i] = S_plus \/ f[i] = t[i]

\* '{}/+/+/set'.format(config['home_assistant']['state_topic'])
CommandFilter == Join(<<StateTopic, S_plus, S_plus, S_set>>)

DeviceIds == {1, 8, 12, 13}
MethodCodes == {TELLSTICK_TURNON, TELLSTICK_TURNOFF, TELLSTICK_BELL,
                TELLSTICK_DIM, 99}
DimLevels == {0, 128}
SensorIds == {3, 11}
DataTypes == {TELLSTICK_TEMPERATURE, TELLSTICK_HUMIDITY, 99}
SensorValues == {<<"2", "1">>}
RawMethods == {<<"t", "u", "r", "n", "o", "n">>}

\* the entities create_topics describes, in the order it lists them
SensorEntities(id_) ==
    [i \in 1..(MaxTopics + 1) |->
        [id |-> IntToStr(id_),
         cap |-> TYPES[<<TELLSTICK_TEMPERATURE, TELLSTICK_HUMIDITY,
                         TELLSTICK_RAINRATE, TELLSTICK_RAINTOTAL>>[i]]]]

DeviceEntities ==
    [i \in 1..(MaxTopics + 1) |->
        [id |-> IntToStr(i), cap |-> IF i = 1 THEN S_light ELSE S_switch]]

RawEntities(id_) ==
    [i \in 1..(MaxTopics + 1) |-> [id |-> IntToStr(id_), cap |-> S_binary_sensor]]

RcSeqs(n) == [1..n -> RCs]

-----------------------------------------------------------------------------
(* The main thread: startup sweep, main loop, teardown *)

\* The execution contexts that can be inside publish_mqtt: the thread of the
\* asyncio loop, which runs the telldus-core callbacks and their
\* initial_publish, and a paho network thread.  main.py itself publishes from
\* the loop thread only; the second caller makes publish_mqtt contend for the
\* lock, which is the situation its with statement is written for.
Contexts == {"loop", "net"}

\* a lock per client connection
LockPerClient(client) == client

\* the lock publish_mqtt takes for a publish on client (l.16, l.56)
LockFor(client) == "THREADING_RLOCK"

Locks == {LockFor(c) : c \in Clients}

IdleCtx == [pc |-> "idle", client |-> "sensor", topics |-> <<>>, rest |-> <<>>,
            key |-> "none", rc |-> 0, calls |-> 0, attempts |-> 0,
            errors |-> 0]

StartOrder == <<"sensor", "device", "command", "subscription">>

At(stage, i) == [stage |-> stage, i |-> i]

Init ==
    /\ pc = At("sweep_sensors", 1)
    /\ connected = [c \in Clients |-> TRUE]
    /\ looping = [c \in Clients |-> FALSE]
    /\ subs = [c \in Clients |-> {}]
    /\ teardown = <<>>
    /\ last = [handler |-> "none"]
    /\ out = NoOutcome
    /\ ctx = [c \in Contexts |-> IdleCtx]
    /\ lockOwner = [l \in Locks |-> "none"]
    /\ lockCount = [l \in Locks |-> 0]
    /\ pending = <<>>
    /\ overtaken = FALSE

\* l.217-219: initial_publish(mqtt_sensor, sensors_topics)
SweepSensors ==
    /\ pc.stage = "sweep_sensors"
    /\ \E id_ \in SensorIds : \E topics \in TopicLists(SensorEntities(id_)) :
       \E rcs \in RcSeqs(NPublishes(topics)) :
        /\ last' = [handler |-> "initial_publish", client |-> "sensor",
                    topics |-> topics]
        /\ out' = initial_publish("sensor", topics, rcs)
    /\ pc' = At("sweep_devices", 1)
    /\ UNCHANGED <<connected, looping, subs, teardown, pubVars>>

\* l.222-224: initial_publish(mqtt_device, devices_topics)
SweepDevices ==
    /\ pc.stage = "sweep_devices"
    /\ \E topics \in TopicLists(DeviceEntities) :
       \E rcs \in RcSeqs(NPublishes(topics)) :
        /\ last' = [handler |-> "initial_publish", client |-> "device",
                    topics |-> topics]
        /\ out' = initial_publish("device", topics, rcs)
    /\ pc' = At("subscribe", 1)
    /\ UNCHANGED <<connected, looping, subs, teardown, pubVars>>

\* l.244, l.107-108: subscribe_device(mqtt_subscription)
SubscribeDevice ==
    /\ pc.stage = "subscribe"
    /\ subs' = [subs EXCEPT !["subscription"] = @ \cup {CommandFilter}]
    /\ pc' = At("loop_start", 1)
    /\ UNCHANGED <<connected, looping, teardown, last, out, pubVars>>

\* l.246-249, then l.251 run_forever
LoopStart ==
    /\ pc.stage = "loop_start"
    /\ looping' = [looping EXCEPT ![StartOrder[pc.i]] = TRUE]
    /\ pc' = IF pc.i < 4 THEN At("loop_start", pc.i + 1) ELSE At("running", 1)
    /\ UNCHANGED <<connected, subs, teardown, last, out, pubVars>>

\* l.252: a KeyboardInterrupt inside the try block
KeyboardInterrupt ==
    /\ pc.stage \in {"subscribe", "loop_start", "running"}
    /\ pc' = At("unsubscribe", 1)
    /\ UNCHANGED <<connected, looping, subs, teardown, last, out, pubVars>>

\* the client the handler unsubscribes (l.253)
UnsubscribeClient == "device"

\* l.253-254
Unsubscribe ==
    /\ pc.stage = "unsubscribe"
    /\ teardown' = Append(teardown,
                          [op |-> "unsubscribe", client |-> UnsubscribeClient])
    /\ subs' = [subs EXCEPT ![UnsubscribeClient] = @ \ {CommandFilter}]
    /\ pc' = At("disconnect", 1)
    /\ UNCHANGED <<connected, looping, last, out, pubVars>>

\* l.256-259
Disconnect ==
    /\ pc.stage = "disconnect"
    /\ connected' = [connected EXCEPT ![StartOrder[pc.i]] = FALSE]
    /\ teardown' = Append(teardown,
                          [op |-> "disconnect", client |-> StartOrder[pc.i]])
    /\ pc' = IF pc.i < 4 THEN At("disconnect", pc.i + 1) ELSE At("loop_stop", 1)
    /\ UNCHANGED <<looping, subs, last, out, pubVars>>

\* l.261-264
LoopStop ==
    /\ pc.stage = "loop_stop"
    /\ looping' = [looping EXCEPT ![StartOrder[pc.i]] = FALSE]
    /\ teardown' = Append(teardown,
                          [op |-> "loop_stop", client |-> StartOrder[pc.i]])
    /\ pc' = IF pc.i < 4 THEN At("loop_stop", pc.i + 1) ELSE At("done", 1)
    /\ UNCHANGED <<connected, subs, last, out, pubVars>>

-----------------------------------------------------------------------------
(* The callbacks *)

\* no callback invocation is under observation
Idle == last.handler = "none"

\* the topics the broker sends to a client subscribed to filters
Delivered(filters) ==
    {topic \in InboundTopics : \E f \in filters : Matches(f, topic)}

\* paho hands a message to on_message on the network thread of the client
\* that holds a matching subscription; an exception leaving on_message ends
\* that thread.
OnMessage ==
    /\ Idle
    /\ looping["subscription"] /\ connected["subscription"]
    /\ \E topic \in Delivered(subs["subscription"]), payload \in Payloads :
        /\ last' = [handler |-> "on_message", topic |-> topic,
                    payload |-> payload]
        /\ out' = on_message(topic, payload)
    /\ looping' = [looping EXCEPT
                      !["subscription"] = (out'.raised = "none")]
    /\ UNCHANGED <<pc, connected, subs, teardown, pubVars>>

\* the telldus-core callbacks run on the asyncio loop of run_forever (l.251)
DeviceEvent ==
    /\ Idle
    /\ pc.stage = "running"
    /\ \E id_ \in DeviceIds, method \in MethodCodes, data \in DimLevels,
          rc \in RCs :
        /\ last' = [handler |-> "device_event", id |-> id_,
                    method |-> method, data |-> data]
        /\ out' = device_event(id_, method, data, rc)
    /\ UNCHANGED <<pc, connected, looping, subs, teardown, pubVars>>

SensorEvent ==
    /\ Idle
    /\ pc.stage = "running"
    /\ \E id_ \in SensorIds, data_type \in DataTypes, value \in SensorValues :
       \E topics \in TopicLists(SensorEntities(id_)) :
       \E rcs \in RcSeqs(NPublishes(topics) + 1) :
        /\ last' = [handler |-> "sensor_event", id |-> id_,
                    data_type |-> data_type, value |-> value,
                    topics |-> topics]
        /\ out' = sensor_event(id_, data_type, value, topics, rcs)
    /\ UNCHANGED <<pc, connected, looping, subs, teardown, pubVars>>

RawEvent ==
    /\ Idle
    /\ pc.stage = "running"
    /\ \E hasCommand \in BOOLEAN, id_ \in SensorIds, method \in RawMethods :
       \E topics \in TopicLists(RawEntities(id_)) :
       \E rcs \in RcSeqs(NPublishes(topics) + 1) :
        /\ last' = [handler |-> "raw_event", hasCommand |-> hasCommand,
                    id |-> id_, method |-> method, topics |-> topics]
        /\ out' = raw_event(hasCommand, id_, method, topics, rcs)
    /\ UNCHANGED <<pc, connected, looping, subs, teardown, pubVars>>

\* the invocation under observation has returned to its caller
Return ==
    /\ ~Idle
    /\ last' = [handler |-> "none"]
    /\ out' = NoOutcome
    /\ UNCHANGED <<pc, connected, looping, subs, teardown, pubVars>>

Next ==
    \/ SweepSensors
    \/ SweepDevices
    \/ SubscribeDevice
    \/ LoopStart
    \/ KeyboardInterrupt
    \/ Unsubscribe
    \/ Disconnect
    \/ LoopStop
    \/ OnMessage
    \/ DeviceEvent
    \/ SensorEvent
    \/ RawEvent
    \/ Return

Spec == Init /\ [][Next]_vars

-----------------------------------------------------------------------------
(* publish_mqtt and initial_publish statement by statement, per context *)

\* the keys of topic that initial_publish publishes after key, in order
KeysAfter(topic, key) ==
    IF key = "none" THEN
        IF "config" \in DOMAIN topic THEN "config"
        ELSE IF "state" \in DOMAIN topic THEN "state" ELSE "none"
    ELSE IF key = "config" /\ "state" \in DOMAIN topic THEN "state"
    ELSE "none"

\* the position of the next publish_mqtt call of the for loop (l.175-181):
\* the remaining topics and the key to publish, or the end of the loop
RECURSIVE Advance(_, _)
Advance(rest, key) ==
    IF rest = <<>> THEN [rest |-> <<>>, key |-> "none"]
    ELSE IF KeysAfter(Head(rest), key) # "none"
         THEN [rest |-> rest, key |-> KeysAfter(Head(rest), key)]
         ELSE Advance(Tail(rest), "none")

\* a failed publish ends the caller's loop
AfterPublishAbort(rest, key, rc) ==
    IF rc = 0 THEN Advance(rest, key) ELSE [rest |-> <<>>, key |-> "none"]

\* where the caller continues after publish_mqtt got rc from client.publish:
\* neither branch of l.59-62 raises, returns early or publishes again
AfterPublish(rest, key, rc) == Advance(rest, key)

Goto(c, pos) ==
    [c EXCEPT !.pc = IF pos.key = "none" THEN "returned" ELSE "acquire",
              !.rest = pos.rest, !.key = pos.key]

\* the loop thread enters initial_publish(client_mqtt, topics)
CallInitialPublish ==
    /\ ctx["loop"].pc = "idle"
    /\ \E client \in {"sensor", "device", "command"} :
       \E topics \in TopicLists(SensorEntities(3)) :
        ctx' = [ctx EXCEPT !["loop"] =
                    Goto([IdleCtx EXCEPT !.client = client,
                                                 !.topics = topics],
                         Advance(topics, "none"))]
    /\ UNCHANGED <<mainVars, lockOwner, lockCount, pending, overtaken>>

\* another thread enters publish_mqtt(client, topic, msg)
CallPublish ==
    /\ ctx["net"].pc = "idle"
    /\ \E client \in Clients, key \in {"config", "state"} :
        LET topics == <<TopicDict(SensorEntities(3)[1].id,
                                  SensorEntities(3)[1].cap, {key})>>
        IN  ctx' = [ctx EXCEPT !["net"] =
                        Goto([IdleCtx EXCEPT !.client = client,
                                                    !.topics = topics],
                             Advance(topics, "none"))]
    /\ UNCHANGED <<mainVars, lockOwner, lockCount, pending, overtaken>>

CurrentTopic(c) == Head(c.rest)[c.key].topic

\* l.56: with THREADING_RLOCK (acquire; an RLock lets its owner re-enter)
Acquire(self) ==
    LET c == ctx[self]
        l == LockFor(c.client)
    IN  /\ c.pc = "acquire"
        /\ lockOwner[l] \in {"none", self}
        /\ lockOwner' = [lockOwner EXCEPT ![l] = self]
        /\ lockCount' = [lockCount EXCEPT ![l] = @ + 1]
        /\ pending' = Append(pending, [ctx |-> self, topic |-> CurrentTopic(c)])
        /\ ctx' = [ctx EXCEPT ![self] =
                      [c EXCEPT !.pc = "publish", !.calls = @ + 1,
                                !.attempts = 0, !.errors = 0]]
        /\ UNCHANGED <<mainVars, overtaken>>

\* l.57: result = client.publish(topic, msg, retain=True)
Publish(self) ==
    LET c == ctx[self]
        me == CHOOSE i \in 1..Len(pending) : pending[i].ctx = self
    IN  /\ c.pc = "publish"
        /\ \E rc \in RCs :
            ctx' = [ctx EXCEPT ![self] =
                       [c EXCEPT !.pc = "log", !.rc = rc, !.attempts = @ + 1]]
        /\ overtaken' = (overtaken \/
                         \E j \in 1..(me - 1) : pending[j].topic = pending[me].topic)
        /\ pending' = [i \in 1..(Len(pending) - 1) |->
                          IF i < me THEN pending[i] ELSE pending[i + 1]]
        /\ UNCHANGED <<mainVars, lockOwner, lockCount>>

\* l.59-62 and the end of the with block, then the next statement of the caller
LogAndRelease(self) ==
    LET c == ctx[self]
        l == LockFor(c.client)
    IN  /\ c.pc = "log"
        /\ lockCount' = [lockCount EXCEPT ![l] = @ - 1]
        /\ lockOwner' = [lockOwner EXCEPT
                            ![l] = IF lockCount[l] = 1 THEN "none" ELSE @]
        /\ ctx' = [ctx EXCEPT ![self] =
                      Goto([c EXCEPT !.errors = @ + publish_log(c.rc)],
                           AfterPublish(c.rest, c.key, c.rc))]
        /\ UNCHANGED <<mainVars, pending, overtaken>>

\* the call has returned and its frame is gone
ReturnToCaller(self) ==
    /\ ctx[self].pc = "returned"
    /\ ctx' = [ctx EXCEPT ![self] = IdleCtx]
    /\ UNCHANGED <<mainVars, lockOwner, lockCount, pending, overtaken>>

NextPub ==
    \/ CallInitialPublish
    \/ CallPublish
    \/ \E self \in Contexts : Acquire(self)
    \/ \E self \in Contexts : Publish(self)
    \/ \E self \in Contexts : LogAndRelease(self)
    \/ \E self \in Contexts : ReturnToCaller(self)

SpecPub == Init /\ [][NextPub]_vars

-----------------------------------------------------------------------------
(* Properties *)

Segs(topic) == Split(topic, "/")

IsOnMessage == last.handler = "on_message"

Malformed(topic, payload) ==
    Len(Segs(topic)) < 4 \/ ~ParseInt(payload).ok

\* C1: an inbound message whose topic has fewer than four segments, or whose
\* payload is not an integer, causes no controller call and exactly one
\* logged error, and on_message returns without raising.
C1_MalformedDropped ==
    (IsOnMessage /\ Malformed(last.topic, last.payload))
        => /\ out.calls = <<>>
           /\ out.errors = 1
           /\ out.raised = "none"

\* the capability and the payload the device-event policy asks for
PolicyCapability(id_, method) ==
    IF method = TELLSTICK_DIM THEN S_brightness
    ELSE IF id_ \in 8..12 /\ method \in {TELLSTICK_TURNON, TELLSTICK_TURNOFF}
    THEN S_light
    ELSE S_switch

PolicyPayload(id_, method, data) ==
    IF method = TELLSTICK_DIM THEN data
    ELSE IF id_ \in 8..12 /\ method = TELLSTICK_TURNOFF THEN 0
    ELSE IF id_ \in 8..12 /\ method = TELLSTICK_TURNON THEN 255
    ELSE method

\* C2: every device event, whatever its id and method code, makes exactly
\* one publish on the device client: light 0 / light 255 for TURNOFF / TURNON
\* on a dimmer id, brightness <data> for DIM, switch <method code> otherwise.
C2_DeviceEventPolicy ==
    last.handler = "device_event"
        => /\ Len(out.pubs) = 1
           /\ out.pubs[1].client = "device"
           /\ Segs(out.pubs[1].topic)[2] = IntToStr(last.id)
           /\ Segs(out.pubs[1].topic)[3] = PolicyCapability(last.id, last.method)
           /\ out.pubs[1].payload
                = IntToStr(PolicyPayload(last.id, last.method, last.data))

WellFormed(topic, payload) ==
    Len(Segs(topic)) = 4 /\ ParseInt(payload).ok

Unsupported(topic, payload) ==
    LET module == Segs(topic)[3]
        action == Segs(topic)[4]
        val == ParseInt(payload).val
    IN  \/ module \notin {S_light, S_brightness, S_switch}
        \/ module = S_light /\ action \notin {S_dim, S_set}
        \/ module = S_switch /\ val \notin {TELLSTICK_TURNON, TELLSTICK_TURNOFF}

\* C3: a well-formed command that matches no row of the dispatch table sends
\* no controller command and logs the unsupported-command error.
C3_UnsupportedLogged ==
    (IsOnMessage /\ WellFormed(last.topic, last.payload)
                 /\ Unsupported(last.topic, last.payload))
        => /\ out.calls = <<>>
           /\ out.errors = 1

\* the controller call the dispatch table gives for <capability>/set
TableCall(module, device_id, val) ==
    IF module = S_switch /\ val = TELLSTICK_TURNON
    THEN <<[op |-> "turn_on", args |-> <<device_id>>]>>
    ELSE IF module = S_switch /\ val = TELLSTICK_TURNOFF
    THEN <<[op |-> "turn_off", args |-> <<device_id>>]>>
    ELSE IF module = S_light /\ val = 0
    THEN <<[op |-> "turn_off", args |-> <<device_id>>]>>
    ELSE IF module = S_light
    THEN <<[op |-> "turn_on_once", args |-> <<device_id>>]>>
    ELSE <<[op |-> "dim", args |-> <<device_id, val>>]>>

InTable(module, val) ==
    \/ module = S_switch /\ val \in {TELLSTICK_TURNON, TELLSTICK_TURNOFF}
    \/ module = S_light
    \/ module = S_brightness

\* C4: a well-formed message on <prefix>/<device_id>/<capability>/set that
\* matches a row of the dispatch table makes exactly the one controller call
\* of that row, for that device id, and no other.
C4_DispatchTable ==
    (/\ IsOnMessage
     /\ WellFormed(last.topic, last.payload)
     /\ Segs(last.topic)[1] = StateTopic
     /\ Segs(last.topic)[4] = S_set
     /\ InTable(Segs(last.topic)[3], ParseInt(last.payload).val))
        => /\ out.calls = TableCall(Segs(last.topic)[3], Segs(last.topic)[2],
                                    ParseInt(last.payload).val)
           /\ out.raised = "none"

\* <prefix>/5/switch/set with payload 1 has called turn_on('5') once
C4_Witness ==
    /\ IsOnMessage
    /\ last.topic = Join(<<StateTopic, <<"5">>, S_switch, S_set>>)
    /\ last.payload = <<"1">>
    /\ out.calls = <<[op |-> "turn_on", args |-> <<<<"5">>>>]>>

\* C5: no publish goes to a topic whose capability segment is the sentinel
\* 'UNKNOWN METHOD <code>'.
C5_NoSentinelTopic ==
    \A i \in DOMAIN out.pubs :
        LET segs == Segs(out.pubs[i].topic)
        IN  Len(segs) >= 3 => ~StartsWith(segs[3], S_unknown)

InCritical(self) == ctx[self].pc \in {"publish", "log"}

\* C6: at most one context is inside the with block of publish_mqtt, whichever
\* clients the contexts publish on, and no publish reaches client.publish ahead
\* of a publish to the same topic that entered the block before it.
C6_Serialized ==
    /\ Cardinality({self \in Contexts : InCritical(self)}) <= 1
    /\ ~overtaken

\* the loop thread is inside the block while the other thread waits to publish
\* to the same topic on another client
C6_Witness ==
    /\ InCritical("loop")
    /\ ctx["net"].pc = "acquire"
    /\ ctx["net"].client # ctx["loop"].client
    /\ CurrentTopic(ctx["net"]) = CurrentTopic(ctx["loop"])

TeardownRank(op) ==
    IF op = "unsubscribe" THEN 1 ELSE IF op = "disconnect" THEN 2 ELSE 3

Done(op, upto) == {teardown[i].client : i \in {j \in 1..upto : teardown[j].op = op}}

\* C7: the interrupt handler first unsubscribes the command filter on the
\* client that holds it, then disconnects the four clients, then stops the
\* four loops: no disconnect before the unsubscribe, no loop_stop before all
\* four disconnects, and after the unsubscribe no client still holds the
\* command subscription.
C7_TeardownOrder ==
    /\ \A i \in DOMAIN teardown :
        /\ teardown[i].op = "unsubscribe" => i = 1
        /\ teardown[i].op = "disconnect" => teardown[1].op = "unsubscribe"
        /\ teardown[i].op = "loop_stop" => Done("disconnect", i - 1) = Clients
        /\ \A j \in 1..(i - 1) :
            TeardownRank(teardown[j].op) <= TeardownRank(teardown[i].op)
    /\ pc.stage = "done" => Done("loop_stop", Len(teardown)) = Clients
    /\ teardown # <<>> => \A c \in Clients : CommandFilter \notin subs[c]

BetweenCalls(c) == c.pc \in {"acquire", "returned"} /\ c.calls > 0

\* C8: a publish_mqtt call whose client.publish returned non-zero has logged
\* one error, made one client.publish attempt and released the lock, and
\* initial_publish returns only after the publish of every config and state
\* entry of its topics, failed ones included.
C8_FailedPublishNonFatal ==
    \A self \in Contexts :
        LET c == ctx[self]
        IN  /\ BetweenCalls(c)
                => /\ c.attempts = 1
                   /\ c.errors = (IF c.rc = 0 THEN 0 ELSE 1)
                   /\ \A l \in Locks : lockOwner[l] # self
            /\ c.pc = "returned" => c.calls = NPublishes(c.topics)

\* the config publish of an entity failed, its state publish is at
\* client.publish and another entity is still to come
C8_Witness ==
    LET c == ctx["loop"]
    IN  /\ c.pc = "publish"
        /\ c.key = "state"
        /\ "config" \in DOMAIN Head(c.rest)
        /\ c.rc # 0
        /\ Len(c.rest) >= 2
        /\ c.calls >= 2

\* C9: every publish handed to a client has the retain flag set.
C9_AlwaysRetain ==
    \A i \in DOMAIN out.pubs : out.pubs[i].retain

\* a sensor event, a raw event, a device event or a sweep has published
C9_Witness ==
    /\ last.handler \in {"sensor_event", "raw_event", "device_event",
                         "initial_publish"}
    /\ Len(out.pubs) >= 1
    /\ pc.stage = "running"

\* within the first n publishes, the config entry of every topic dict is
\* published, and before the state entry of the same dict
ConfigBeforeState(topics, n) ==
    \A k \in DOMAIN topics :
        /\ "config" \in DOMAIN topics[k]
            => \E i \in 1..n : out.pubs[i].topic = topics[k]["config"].topic
        /\ "state" \in DOMAIN topics[k]
            => \E j \in 1..n : out.pubs[j].topic = topics[k]["state"].topic
        /\ {"config", "state"} \subseteq DOMAIN topics[k]
            => \A j \in 1..n :
                 out.pubs[j].topic = topics[k]["state"].topic
                    => \E i \in 1..(j - 1) :
                         out.pubs[i].topic = topics[k]["config"].topic

\* C10: a sensor event publishes the discovery topics of the sensor before
\* the state value of the event, all on the sensor client, and within
\* initial_publish the config publish of an entity precedes its state publish.
C10_DiscoveryFirst ==
    /\ last.handler = "sensor_event"
        => LET n == Len(out.pubs)
           IN  /\ n = NPublishes(last.topics) + 1
               /\ \A i \in 1..n : out.pubs[i].client = "sensor"
               /\ Segs(out.pubs[n].topic)[2] = IntToStr(last.id)
               /\ Segs(out.pubs[n].topic)[4] = S_state
               /\ out.pubs[n].payload = last.value
               /\ ConfigBeforeState(last.topics, n - 1)
    /\ last.handler = "initial_publish"
        => /\ Len(out.pubs) = NPublishes(last.topics)
           /\ ConfigBeforeState(last.topics, Len(out.pubs))

\* a sensor event whose sensor has an entity with both a config and a state
\* entry has published them and then the reading
C10_Witness ==
    /\ last.handler = "sensor_event"
    /\ \E k \in DOMAIN last.topics :
        {"config", "state"} \subseteq DOMAIN last.topics[k]
    /\ Len(out.pubs) >= 3
    /\ out.pubs[Len(out.pubs)].payload = last.value

====
